---- MODULE Spec2Model ----
(***************************************************************************)
(* Model of the action pipeline of the desktop analyzer:                   *)
(*   src/py/action_executor.py        ActionExecutor (the class that       *)
(*                                    Main Application.py imports)         *)
(*   src/py/Action Executor Module.py the earlier ActionExecutor           *)
(*                                                                         *)
(* A response text is a sequence of tokens.  A token is a keyword (CLICK,  *)
(* TYPE, PRESS in some letter case), one punctuation or white-space        *)
(* character, one decimal digit, or a word made of other characters.       *)
(* Every character class used by the regular expressions of the source     *)
(* either contains all the characters of a token or none of them, so the   *)
(* regular expressions are evaluated token by token.                       *)
(***************************************************************************)
EXTENDS Integers, Sequences, FiniteSets, TLC

\* ------------------------------------------------------------------ bounds
MaxSegs == 2      \* response texts of the pipeline: at most MaxSegs phrases
MaxLen == 4       \* response texts of the parser runs: at most MaxLen tokens
MaxParseSegs == 3 \* response texts of the parser runs: at most MaxParseSegs phrases
MaxTokens == 2    \* OCR results of the recognizer runs: at most MaxTokens tokens
MaxCycles == 2    \* analysis cycles started by one run of the interactive loop
MaxContours == 2  \* contours of the analyzer runs: at most MaxContours bounding boxes
MaxRetries == 2   \* max_retries of the client runs: at most MaxRetries

\* ------------------------------------------------------------------ tokens
DigitTok == <<"0", "1", "2", "3", "4", "5", "6", "7", "8", "9">>
Digits == {DigitTok[i] : i \in 1..10}
ClickKw == {"CLICK", "click", "Click"}
TypeKw == {"TYPE", "type"}
PressKw == {"PRESS", "press"}
Quote == "\""

IsDigit(t) == t \in Digits
NotDigit(t) == t \notin Digits
IsSpace(t) == t \in {" ", "\n", "\r", "\t"}
NotLBracket(t) == t # "["
NotQuote(t) == t # Quote

DigitVal(t) == CHOOSE n \in 0..9 : DigitTok[n + 1] = t

\* int(m.group(k)) of a non-empty run of digits
RECURSIVE ToInt(_)
ToInt(ds) ==
  IF ds = <<>> THEN 0
  ELSE 10 * ToInt(SubSeq(ds, 1, Len(ds) - 1)) + DigitVal(ds[Len(ds)])

Min(a, b) == IF a < b THEN a ELSE b
Abs(n) == IF n < 0 THEN -n ELSE n

\* the character classes of the patterns: \d, [^0-9], \s, [^\[], [^"]
InClass(cls, t) ==
  CASE cls = "\\d" -> IsDigit(t)
    [] cls = "[^0-9]" -> NotDigit(t)
    [] cls = "\\s" -> IsSpace(t)
    [] cls = "[^\\[]" -> NotLBracket(t)
    [] cls = "[^\"]" -> NotQuote(t)

\* the position after the longest run of tokens of class Cls that starts at i
SkipWhile(s, i, cls) ==
  CHOOSE j \in i..(Len(s) + 1) :
    /\ \A k \in i..(j - 1) : InClass(cls, s[k])
    /\ (j = Len(s) + 1 \/ ~InClass(cls, s[j]))

At(s, i) == IF i >= 1 /\ i <= Len(s) THEN s[i] ELSE "<eof>"

\* ------------------------------------------------------------------ directives
Click(x, y) == [type |-> "click", x |-> x, y |-> y, text |-> <<>>]
Type(t) == [type |-> "type", x |-> 0, y |-> 0, text |-> t]
Press(k) == [type |-> "press", x |-> 0, y |-> 0, text |-> k]

NoMatch == [ok |-> FALSE, start |-> 0, end |-> 0, x |-> 0, y |-> 0, text |-> <<>>]
Match(i, e, x, y) == [ok |-> TRUE, start |-> i, end |-> e, x |-> x, y |-> y, text |-> <<>>]
MatchText(i, e, t) == [ok |-> TRUE, start |-> i, end |-> e, x |-> 0, y |-> 0, text |-> t]

\* text.replace('\r', '\n')
normalized(text) == [i \in 1..Len(text) |-> IF text[i] = "\r" THEN "\n" ELSE text[i]]

\* re.compile(r"CLICK[^\[]*\[\s*(\d+)\s*,\s*(\d+)\s*\]", re.IGNORECASE) tried at i
click_pattern(s, i) ==
  IF At(s, i) \notin ClickKw THEN NoMatch
  ELSE
    LET lb == SkipWhile(s, i + 1, "[^\\[]")
        x1 == SkipWhile(s, lb + 1, "\\s")
        x2 == SkipWhile(s, x1, "\\d")
        cm == SkipWhile(s, x2, "\\s")
        y1 == SkipWhile(s, cm + 1, "\\s")
        y2 == SkipWhile(s, y1, "\\d")
        rb == SkipWhile(s, y2, "\\s")
    IN IF /\ lb <= Len(s)
          /\ x2 > x1
          /\ At(s, cm) = ","
          /\ y2 > y1
          /\ At(s, rb) = "]"
       THEN Match(i, rb + 1, ToInt(SubSeq(s, x1, x2 - 1)), ToInt(SubSeq(s, y1, y2 - 1)))
       ELSE NoMatch

\* re.compile(r"CLICK[^0-9]*(\d{1,4})\s*,\s*(\d{1,4})", re.IGNORECASE) tried at i
alt_pattern(s, i) ==
  IF At(s, i) \notin ClickKw THEN NoMatch
  ELSE
    LET x1 == SkipWhile(s, i + 1, "[^0-9]")
        x2 == Min(SkipWhile(s, x1, "\\d"), x1 + 4)
        cm == SkipWhile(s, x2, "\\s")
        y1 == SkipWhile(s, cm + 1, "\\s")
        y2 == Min(SkipWhile(s, y1, "\\d"), y1 + 4)
    IN IF /\ x1 <= Len(s)
          /\ At(s, cm) = ","
          /\ y2 > y1
       THEN Match(i, y2, ToInt(SubSeq(s, x1, x2 - 1)), ToInt(SubSeq(s, y1, y2 - 1)))
       ELSE NoMatch

\* ---------------------------------------------- patterns of Action Executor Module.py
LowerPairs ==
  { <<"CLICK", "click">>, <<"Click", "click">>, <<"TYPE", "type">>, <<"PRESS", "press">>,
    <<"ENTER", "enter">>, <<"Enter", "enter">>, <<"Hello", "hello">>, <<"Tab", "tab">> }

\* str.lower() of one token
LowerTok(t) ==
  IF \E p \in LowerPairs : p[1] = t THEN (CHOOSE p \in LowerPairs : p[1] = t)[2] ELSE t

lower(s) == [i \in 1..Len(s) |-> LowerTok(s[i])]

\* r'CLICK\s*\((\d+),\s*(\d+)\)' tried at i
paren_click_pattern(s, i) ==
  IF At(s, i) \notin ClickKw THEN NoMatch
  ELSE
    LET lp == SkipWhile(s, i + 1, "\\s")
        x2 == SkipWhile(s, lp + 1, "\\d")
        y1 == SkipWhile(s, x2 + 1, "\\s")
        y2 == SkipWhile(s, y1, "\\d")
    IN IF /\ At(s, lp) = "("
          /\ x2 > lp + 1
          /\ At(s, x2) = ","
          /\ y2 > y1
          /\ At(s, y2) = ")"
       THEN Match(i, y2 + 1, ToInt(SubSeq(s, lp + 1, x2 - 1)), ToInt(SubSeq(s, y1, y2 - 1)))
       ELSE NoMatch

\* r'KEYWORD\s*"([^"]+)"' tried at i
QuotedAt(Kw, s, i) ==
  IF At(s, i) \notin Kw THEN NoMatch
  ELSE
    LET q1 == SkipWhile(s, i + 1, "\\s")
        q2 == SkipWhile(s, q1 + 1, "[^\"]")
    IN IF /\ At(s, q1) = Quote
          /\ q2 > q1 + 1
          /\ At(s, q2) = Quote
       THEN MatchText(i, q2 + 1, SubSeq(s, q1 + 1, q2 - 1))
       ELSE NoMatch

type_pattern(s, i) == QuotedAt(TypeKw, s, i)
press_pattern(s, i) == QuotedAt(PressKw, s, i)

\* one attempt of the named pattern at position i
MatchAt(pat, s, i) ==
  CASE pat = "click_pattern" -> click_pattern(s, i)
    [] pat = "alt_pattern" -> alt_pattern(s, i)
    [] pat = "paren_click_pattern" -> paren_click_pattern(s, i)
    [] pat = "type_pattern" -> type_pattern(s, i)
    [] pat = "press_pattern" -> press_pattern(s, i)

\* pattern.finditer(s) and re.findall: the non-overlapping matches, leftmost first
RECURSIVE finditer(_, _, _)
finditer(pat, s, pos) ==
  IF pos > Len(s) THEN <<>>
  ELSE LET m == MatchAt(pat, s, pos)
       IN IF m.ok THEN <<m>> \o finditer(pat, s, m.end)
          ELSE finditer(pat, s, pos + 1)

\* ---------------------------------------------- action_executor.py
\* the loop over alt_pattern's matches without its test for a pair already captured
AppendAll(acc, ms) == acc \o ms

\* the loop over alt_pattern's matches (lines 111-116): a pair of coordinates that
\* is already in actions is not appended again
RECURSIVE AppendUnseen(_, _)
AppendUnseen(acc, ms) ==
  IF ms = <<>> THEN acc
  ELSE LET m == Head(ms)
           seen == \E k \in 1..Len(acc) : acc[k].x = m.x /\ acc[k].y = m.y
       IN AppendUnseen(IF seen THEN acc ELSE Append(acc, m), Tail(ms))

\* the matches behind parse_actions' directives: click_pattern's, then alt_pattern's
parse_matches(text) ==
  LET s == normalized(text)
  IN AppendUnseen(finditer("click_pattern", s, 1), finditer("alt_pattern", s, 1))

ClicksOf(ms) == [k \in 1..Len(ms) |-> Click(ms[k].x, ms[k].y)]

\* ActionExecutor.parse_actions of action_executor.py ("not text" covers both the
\* missing and the empty text: the empty sequence stands for either)
parse_actions(text) ==
  IF text = <<>> THEN <<>> ELSE ClicksOf(parse_matches(text))

\* ---------------------------------------------- Action Executor Module.py
TypesOf(ms) == [k \in 1..Len(ms) |-> Type(ms[k].text)]
PressesOf(ms) == [k \in 1..Len(ms) |-> Press(lower(ms[k].text))]

\* pyautogui.KEYBOARD_KEYS as far as the modelled key names go (_execute_press)
KEYBOARD_KEYS == {<<"enter">>, <<"tab">>, <<"esc">>}

\* ActionExecutor._parse_actions of Action Executor Module.py
ModuleParseActions(response) ==
  ClicksOf(finditer("paren_click_pattern", response, 1))
    \o TypesOf(finditer("type_pattern", response, 1))
    \o PressesOf(finditer("press_pattern", response, 1))

\* ---------------------------------------------- Screen Analyzer Module.py
\* int(v) of a decimal numeral with an optional sign
int(v) == IF v # <<>> /\ v[1] = "-" THEN -ToInt(Tail(v)) ELSE ToInt(v)

\* str.strip(): the white space at both ends removed
RECURSIVE lstrip(_)
lstrip(s) == IF s # <<>> /\ IsSpace(Head(s)) THEN lstrip(Tail(s)) ELSE s

RECURSIVE rstrip(_)
rstrip(s) == IF s # <<>> /\ IsSpace(s[Len(s)]) THEN rstrip(SubSeq(s, 1, Len(s) - 1)) ELSE s

strip(s) == rstrip(lstrip(s))

\* one index of the lists of pytesseract.image_to_data's dict: conf as the numeral
\* Tesseract printed, text as its characters, box as <<left, top, width, height>>
OcrToken(conf, t, box) == [conf |-> conf, text |-> t, box |-> box]

\* the dict appended at lines 114-119
TextElement(t, box, conf) ==
  [type |-> "text", text |-> t, coordinates |-> box, confidence |-> conf]

\* a test that lets a confidence equal to the threshold pass
PassesConfidenceOrEqual(conf, thr) == conf >= thr

\* line 110: conf > self.config.ocr_confidence_threshold
PassesConfidence(conf, thr) == conf > thr

\* ScreenAnalyzer._extract_text_with_ocr, lines 106-121: the loop over the boxes
RECURSIVE extract_text_with_ocr(_, _)
extract_text_with_ocr(data, thr) ==
  IF data = <<>> THEN <<>>
  ELSE LET tok == Head(data)
           conf == int(tok.conf)
           rest == extract_text_with_ocr(Tail(data), thr)
       IN IF PassesConfidence(conf, thr)
          THEN LET t == strip(tok.text)
               IN IF t # <<>> THEN <<TextElement(t, tok.box, conf)>> \o rest ELSE rest
          ELSE rest

\* the dicts appended at lines 141-144 and 146-149
Element(kind, box) == [type |-> kind, coordinates |-> box]

\* a test that takes the sizes on the thresholds as buttons too
IsButtonInclusive(w, h) == w >= 20 /\ h >= 10 /\ 100 >= w /\ 50 >= h

\* line 140: w > 20 and h > 10 and 100 > w > 20 and 50 > h > 10
IsButton(w, h) == w > 20 /\ h > 10 /\ (100 > w /\ w > 20) /\ (50 > h /\ h > 10)

\* line 145 (the elif of line 140): w > 100 and h > 100
IsWindow(w, h) == ~IsButton(w, h) /\ w > 100 /\ h > 100

\* lines 131-149: the loop over the contours, rects being their bounding boxes
\* <<x, y, w, h>> in the order of cv2.findContours
RECURSIVE buttons(_)
buttons(rects) ==
  IF rects = <<>> THEN <<>>
  ELSE LET r == Head(rects)
       IN (IF IsButton(r[3], r[4]) THEN <<Element("button", r)>> ELSE <<>>)
            \o buttons(Tail(rects))

RECURSIVE windows(_)
windows(rects) ==
  IF rects = <<>> THEN <<>>
  ELSE LET r == Head(rects)
       IN (IF IsWindow(r[3], r[4]) THEN <<Element("window", r)>> ELSE <<>>)
            \o windows(Tail(rects))

\* ScreenAnalyzer._detect_ui_elements, line 152
detect_ui_elements(rects) ==
  [buttons |-> buttons(rects), windows |-> windows(rects), icons |-> <<>>]

\* lines 163 and 171: (x + width // 2, y + height // 2)
Center(box) == <<box[1] + (box[3] \div 2), box[2] + (box[4] \div 2)>>

\* the dicts appended at lines 160-164 and 168-172
Point(kind, description, box) ==
  [type |-> kind, description |-> description, coordinates |-> Center(box)]

RECURSIVE text_points(_)
text_points(elems) ==
  IF elems = <<>> THEN <<>>
  ELSE <<Point("text_click", <<"Click text: '">> \o Head(elems).text \o <<"'">>,
               Head(elems).coordinates)>>
       \o text_points(Tail(elems))

RECURSIVE button_points(_)
button_points(elems) ==
  IF elems = <<>> THEN <<>>
  ELSE <<Point("button_click", <<"Click button">>, Head(elems).coordinates)>>
       \o button_points(Tail(elems))

\* ScreenAnalyzer._find_interaction_points, lines 154-173: the points of the text
\* elements, then those of the buttons; windows give no point
find_interaction_points(elements) ==
  text_points(elements.text) \o button_points(elements.buttons)


\* ------------------------------------------------------------------ inputs
\* phrases a response is put together from
Phrases ==
  { <<"CLICK", " ", "[", "1", ",", "2", "]">>,
    <<"click", " ", "2", ",", "1">>,
    <<"CLICK", "(", "9", "6", "0", ",", "5", "4", "0", ")">>,
    <<"CLICK", " ", "[", "2", "0", "0", "0", ",", "1", "0", "]">>,
    <<"TYPE", " ", Quote, "Hello", ",", " ", "world!", Quote>>,
    <<"PRESS", " ", Quote, "Enter", Quote>>,
    <<"PRESS", Quote, "foo", Quote>>,
    <<"[", "x", "]">>,
    <<"\r">> }

\* the concatenations of at most n phrases
RECURSIVE PhraseTexts(_)
PhraseTexts(n) ==
  IF n = 0 THEN {<<>>}
  ELSE LET shorter == PhraseTexts(n - 1)
       IN shorter \cup {t \o p : t \in shorter, p \in Phrases}

\* "1. CLICK button at coordinates [89, 17]\n2. CLICK button at coordinates [198, 17]\n
\*  3. CLICK button at [271, 17]" (action_executor.py, the sample under __main__)
SampleThree ==
  <<"1", ".", " ", "CLICK", " ", "button", " ", "at", " ", "coordinates", " ",
    "[", "8", "9", ",", " ", "1", "7", "]", "\n",
    "2", ".", " ", "CLICK", " ", "button", " ", "at", " ", "coordinates", " ",
    "[", "1", "9", "8", ",", " ", "1", "7", "]", "\n",
    "3", ".", " ", "CLICK", " ", "button", " ", "at", " ",
    "[", "2", "7", "1", ",", " ", "1", "7", "]">>
SampleParen == <<"CLICK", " ", "(", "8", "9", ",", " ", "1", "7", ")">>
SampleBracket ==
  <<"CLICK", " ", "button", " ", "at", " ", "coordinates", " ", "[", "8", "9", ",", " ", "1", "7", "]">>
SampleBare == <<"CLICK", " ", "at", " ", "8", "9", ",", "1", "7">>
SampleType == <<"TYPE", " ", Quote, "Hello", ",", " ", "world!", Quote>>
\* smoke_test_action_executor.py: sample_response
SampleSmoke ==
  <<"\n", "CLICK", " ", "[", "6", "4", "0", ",", " ", "3", "6", "0", "]", "\n",
    "CLICK", " ", "[", "1", "0", "0", ",", " ", "2", "0", "0", "]", "\n",
    "CLICK", " ", "[", "1", "2", "8", "0", ",", " ", "7", "2", "0", "]", "\n">>
Samples == {SampleThree, SampleParen, SampleBracket, SampleBare, SampleType, SampleSmoke}

ResponseTexts == PhraseTexts(MaxSegs) \cup Samples

\* every text of at most n tokens of the alphabet
Alphabet == {"CLICK", "[", "]", ",", "1", " ", "(", ")"}
RECURSIVE TokenTexts(_)
TokenTexts(n) ==
  IF n = 0 THEN {<<>>}
  ELSE LET shorter == TokenTexts(n - 1)
       IN shorter \cup {Append(t, c) : t \in shorter, c \in Alphabet}

\* texts with a number of five digits
LongNumberTexts ==
  { <<"CLICK", " ", "[", "1", "2", ",", " ", "3", "4", "5", "6", "7", "]">>,
    <<"CLICK", " ", "1", "2", ",", "3", "4", "5", "6", "7">>,
    <<"CLICK", " ", "1", "2", "3", "4", "5", ",", "6">>,
    <<"CLICK", " ", "[", "1", "2", "3", "4", "5", ",", " ", "6", "7", "8", "9", "0", "]">> }

ParserTexts ==
  TokenTexts(MaxLen) \cup PhraseTexts(MaxParseSegs) \cup Samples \cup LongNumberTexts

\* the JSON file _load_latest_report finds in REPORTS_DIR
NoDims == <<>>
NoReport == [present |-> FALSE, cv_analysis |-> NoDims, screen_dimensions |-> NoDims, strings |-> <<>>]
\* what Main Application.py saves: the dict of ScreenAnalyzer.analyze_screen
ScreenReport ==
  [present |-> TRUE, cv_analysis |-> NoDims, screen_dimensions |-> <<1920, 1080>>,
   strings |-> <<[text |-> <<"text">>, len |-> 4], [text |-> <<"OK">>, len |-> 2]>>]
\* a report that carries UniversalVisionProcessor.process_image's dict
VisionReport ==
  [present |-> TRUE, cv_analysis |-> <<1920, 1080>>, screen_dimensions |-> NoDims,
   strings |-> <<[text |-> <<"OK">>, len |-> 2],
                 [text |-> <<"a line of 121 characters">>, len |-> 121],
                 [text |-> <<"shot.png">>, len |-> 8]>>]
\* smoke_test_action_executor.py: smoke_report.json
SmokeReport ==
  [present |-> TRUE, cv_analysis |-> NoDims, screen_dimensions |-> NoDims,
   strings |-> <<[text |-> <<"Hello from smoke test! Please enter this text.">>, len |-> 46]>>]
Reports == {NoReport, ScreenReport, VisionReport, SmokeReport}

\* what Tesseract reports for one box
OcrConfs == {<<"-", "1">>, <<"0">>, <<"2", "9">>, <<"3", "0">>, <<"3", "1">>, <<"1", "0", "0">>}
OcrTexts == {<<>>, <<" ">>, <<"O", "K">>, <<" ", "S", "a", "v", "e", "\n">>}
Boxes == {<<10, 20, 30, 12>>}
OcrTokens == {OcrToken(c, t, b) : c \in OcrConfs, t \in OcrTexts, b \in Boxes}

\* the results of at most n boxes
RECURSIVE OcrResults(_)
OcrResults(n) ==
  IF n = 0 THEN {<<>>}
  ELSE LET shorter == OcrResults(n - 1)
       IN shorter \cup {Append(d, tok) : d \in shorter, tok \in OcrTokens}

\* values of OCR_CONFIDENCE_THRESHOLD (default 30)
Thresholds == {0, 30, 60}

\* pyautogui.size() and the size of the screenshot: a display whose screenshot has
\* one pixel per point, and one (macOS screencapture on a scaled display) whose
\* screenshot has two pixels per point
Displays ==
  { [screen |-> <<1920, 1080>>, image |-> <<1920, 1080>>],
    [screen |-> <<1440, 900>>, image |-> <<2880, 1800>>] }

\* widths and heights of bounding boxes, on and around the thresholds of lines 140, 145
RectSizes ==
  { <<1, 1>>, <<20, 30>>, <<21, 11>>, <<60, 10>>, <<99, 49>>, <<100, 30>>, <<60, 50>>,
    <<101, 101>>, <<100, 150>>, <<150, 100>>, <<150, 30>> }

\* a box of size sz in the top left and in the bottom right corner of an image
RectsIn(img, sz) ==
  { <<0, 0, sz[1], sz[2]>>, <<img[1] - sz[1], img[2] - sz[2], sz[1], sz[2]>> }

\* the bounding boxes of the contours of an image
ContourRects(img) == UNION { RectsIn(img, sz) : sz \in RectSizes }

\* the bounding boxes of at most n contours
RECURSIVE ContourLists(_, _)
ContourLists(img, n) ==
  IF n = 0 THEN {<<>>}
  ELSE LET shorter == ContourLists(img, n - 1)
       IN shorter \cup {Append(c, r) : c \in shorter, r \in ContourRects(img)}

\* what Tesseract reports for an image with at most one word
WordResults(img) ==
  {<<>>} \cup { <<OcrToken(<<"9", "6">>, <<"O", "K">>, b)>> : b \in RectsIn(img, <<30, 12>>) }

\* directive lists handed to execute_actions by a direct caller
DirectLists ==
  { <<Click(-5, 10)>>, <<Click(2000, 10)>>, <<Click(960, 540)>>,
    <<Click(-5, 10), Click(960, 540)>>, <<Click(960, 540), Click(2000, 10)>>,
    <<Press(<<"enter">>), Click(960, 540)>>, <<Type(<<"Hello">>)>>, <<>> }

\* ------------------------------------------------------------------ state
VARIABLES
  entry,            \* the method the caller invoked
  text,             \* response_text
  actions,          \* parse_actions' result
  mode,             \* random.choice(["click", "type"])
  selected,         \* the directives handed to execute_actions
  gate,             \* Idle, AwaitingConfirmation, Confirmed, Cancelled
  polled,           \* keyboard.is_pressed has been called in this cycle
  observed,         \* what resolved the wait: none, cancel, confirm, error
  cancelDown,       \* CANCEL_KEY is held down
  confirmDown,      \* CONFIRM_KEY is held down
  idx,              \* position of execute_actions' loop
  ops,              \* the calls made on pyautogui and time.sleep, in order
  pc,               \* control position
  result,           \* run_from_response's return value
  outcomes,         \* what execute_actions did with each directive, in order
  AUTO_EXECUTE,     \* module constant read from the environment
  MAX_ACTIONS,      \* module constant read from the environment
  keyboard,         \* the keyboard module was imported
  pyautogui,        \* the pyautogui module was imported
  latest_report,    \* the newest report file
  stage,            \* position of run_analysis_cycle and of the loop that calls it
  bound,            \* the local names run_analysis_cycle has bound in this call
  failed,           \* the step of this cycle that raised, if any
  ocr_data,         \* what pytesseract.image_to_data returned
  threshold,        \* config.ocr_confidence_threshold
  text_elements,    \* _extract_text_with_ocr's result
  analysis_report,  \* analyze_screen's result
  chatgpt_response, \* get_actions_from_report's result
  db,               \* the rows of the cycles table
  cycles,           \* the calls of run_analysis_cycle so far
  reported,         \* what the finished cycles returned, with how each of them ended
  FAILSAFE,         \* pyautogui.FAILSAFE
  inserts,          \* the calls of insert_cycle so far
  screen,           \* self.screen_width, self.screen_height of the ScreenAnalyzer
  image,            \* width and height of the image cv2.imread loaded
  contours,         \* cv2.boundingRect of each contour cv2.findContours returned
  ui_elements,      \* _detect_ui_elements' result
  interaction_points, \* _find_interaction_points' result
  max_retries,      \* self.max_retries of the ChatGPTClient
  attempt,          \* the local attempt of _make_api_request
  posts             \* how each call of session.post in _make_api_request ended, in order

vars ==
  <<entry, text, actions, mode, selected, gate, polled, observed, cancelDown, confirmDown,
    idx, ops, pc, result, outcomes, AUTO_EXECUTE, MAX_ACTIONS, keyboard, pyautogui, latest_report,
    stage, bound, failed, ocr_data, threshold, text_elements, analysis_report,
    chatgpt_response, db, cycles, reported, FAILSAFE, inserts,
    screen, image, contours, ui_elements, interaction_points, max_retries, attempt, posts>>

config == <<AUTO_EXECUTE, MAX_ACTIONS, keyboard, pyautogui, latest_report>>

runner ==
  <<stage, bound, failed, ocr_data, threshold, text_elements, analysis_report,
    chatgpt_response, db, cycles, reported, FAILSAFE, inserts>>

executor ==
  <<entry, text, actions, mode, selected, gate, polled, observed, cancelDown, confirmDown,
    idx, ops, pc, result, outcomes>>

analyzer == <<screen, image, contours, ui_elements, interaction_points>>

client == <<max_retries, attempt, posts>>

Op(kind, x, y, t) == [op |-> kind, x |-> x, y |-> y, text |-> t]
MoveTo(x, y) == Op("moveTo", x, y, <<>>)
ClickOp == Op("click", 0, 0, <<>>)
Write(t) == Op("write", 0, 0, t)
\* time.sleep(self.action_delay)
Sleep == Op("sleep", 0, 0, <<>>)
\* the pause of pyautogui.PAUSE seconds (set to self.action_delay by __init__) that
\* pyautogui makes at the end of each of its calls
Pause == Op("pause", 0, 0, <<>>)

IsDeviceOp(o) == o.op \in {"moveTo", "click", "write", "press"}
DeviceOps == SelectSeq(ops, IsDeviceOp)

InitConfig ==
  /\ AUTO_EXECUTE \in BOOLEAN
  /\ MAX_ACTIONS \in {1, 2}
  /\ keyboard \in BOOLEAN
  /\ pyautogui \in BOOLEAN
  /\ latest_report \in Reports

InitCycle ==
  /\ actions = <<>>
  /\ mode = "none"
  /\ gate = "Idle"
  /\ polled = FALSE
  /\ observed = "none"
  /\ cancelDown = FALSE
  /\ confirmDown = FALSE
  /\ idx = 1
  /\ ops = <<>>
  /\ result = "none"
  /\ outcomes = <<>>

\* no cycle runner: the executor is called on its own
RunnerOff ==
  /\ stage = "off"
  /\ bound = {}
  /\ failed = "none"
  /\ ocr_data = <<>>
  /\ threshold = 30
  /\ text_elements = <<>>
  /\ analysis_report = NoReport
  /\ chatgpt_response = <<>>
  /\ db = <<>>
  /\ cycles = 0
  /\ reported = {}
  /\ FAILSAFE = TRUE
  /\ inserts = 0

\* ------------------------------------------------------------------ chatgpt_client.py
\* how one round of the loop of _make_api_request (lines 83-85) can end: the JSON
\* body is returned, raise_for_status raises an HTTPError carrying a status (or no
\* response), session.post raises another RequestException, or something else is
\* raised that neither except clause names
HttpStatuses == {429, 500, 502, 503, 504, 400, 401, 404, 501}
PostOutcomes ==
  {[kind |-> "json", status |-> 200]}
    \cup {[kind |-> "HTTPError", status |-> s] : s \in HttpStatuses \cup {0}}
    \cup {[kind |-> "RequestException", status |-> 0], [kind |-> "Exception", status |-> 0]}

\* a test that lets every HTTP error be tried again
IsRetryStatusOrAny(status) == TRUE

\* line 89: status in (429, 500, 502, 503, 504)
IsRetryStatus(status) == status \in {429, 500, 502, 503, 504}

\* lines 89 and 98: the except clause sleeps and continues
Retries(o, n, max) ==
  \/ o.kind = "HTTPError" /\ IsRetryStatus(o.status) /\ n <= max
  \/ o.kind = "RequestException" /\ n <= max

RECURSIVE Pow2(_)
Pow2(n) == IF n = 0 THEN 1 ELSE 2 * Pow2(n - 1)

\* lines 90-93, 99-102: time.sleep(2 ** (attempt - 1) + jitter), the jitter left out
Backoff(n) == Op("backoff", Pow2(n - 1), 0, <<>>)

\* pyautogui.size() of the smoke test's device, and the value used without pyautogui
ScreenSize == <<1920, 1080>>

\* no screen is analyzed
AnalyzerOff ==
  /\ screen = ScreenSize
  /\ image = ScreenSize
  /\ contours = <<>>
  /\ ui_elements = [buttons |-> <<>>, windows |-> <<>>, icons |-> <<>>]
  /\ interaction_points = <<>>

\* no request is made
ClientOff ==
  /\ max_retries = 5
  /\ attempt = 0
  /\ posts = <<>>

Init ==
  /\ InitConfig
  /\ InitCycle
  /\ AnalyzerOff
  /\ ClientOff
  /\ RunnerOff
  /\ \/ entry = "run_from_response" /\ text \in ResponseTexts /\ selected = <<>> /\ pc = "parse"
     \/ entry = "execute_actions" /\ text = <<>> /\ selected \in DirectLists /\ pc = "execute"


\* ------------------------------------------------------------------ run_from_response
\* the strings collect() gathers, stripped and longer than 2, then those of at most 120
\* characters; the first of them, or the fallback
fallback == <<"Automated input">>
\* a test that takes the short strings too
IsCandidateOrShort(c) == c.len <= 120

IsCandidate(c) == c.len > 2 /\ c.len <= 120
extract_typing_text_from_report(report) ==
  IF ~report.present THEN fallback
  ELSE LET candidates == SelectSeq(report.strings, IsCandidate)
       IN IF candidates # <<>> THEN candidates[1].text ELSE fallback

score(a) ==
  IF a.type = "click"
  THEN Abs(a.x - ScreenSize[1] \div 2) + Abs(a.y - ScreenSize[2] \div 2)
  ELSE 1000000

\* sorted(actions, key=score): stable, ascending
RECURSIVE sorted(_)
sorted(as) ==
  IF as = <<>> THEN <<>>
  ELSE LET rest == sorted(SubSeq(as, 1, Len(as) - 1))
           a == as[Len(as)]
           k == Cardinality({i \in 1..Len(rest) : score(rest[i]) <= score(a)})
       IN SubSeq(rest, 1, k) \o <<a>> \o SubSeq(rest, k + 1, Len(rest))

\* the first directives in parse order
SelectFirst(as, n) == SubSeq(as, 1, Min(n, Len(as)))

\* sorted(actions, key=score)[:MAX_ACTIONS]
SelectTop(as, n) == SubSeq(sorted(as), 1, Min(n, Len(as)))

\* run_from_response without its return on an empty directive list
ParseUnguarded ==
  /\ pc = "parse"
  /\ actions' = parse_actions(text)
  /\ pc' = "select"
  /\ UNCHANGED <<entry, text, mode, selected, gate, polled, observed, cancelDown, confirmDown,
                 idx, ops, result, outcomes, config, runner, analyzer, client>>

\* lines 247-250: parse; with no directive the call returns False
Parse ==
  /\ pc = "parse"
  /\ actions' = parse_actions(text)
  /\ IF actions' = <<>>
     THEN pc' = "done" /\ result' = "False"
     ELSE pc' = "select" /\ result' = result
  /\ UNCHANGED <<entry, text, mode, selected, gate, polled, observed, cancelDown, confirmDown,
                 idx, ops, outcomes, config, runner, analyzer, client>>

\* lines 252-284: the mode is drawn at random; type mode replaces the directives by one
\* typing directive, click mode keeps the MAX_ACTIONS directives nearest the centre,
\* or all of them when the selection raises (pyautogui.size() failing)
Select ==
  /\ pc = "select"
  /\ \E m \in {"click", "type"}, size_raises \in BOOLEAN :
       /\ size_raises => (m = "click" /\ pyautogui)
       /\ mode' = m
       /\ selected' =
            IF m = "type" THEN <<Type(extract_typing_text_from_report(latest_report))>>
            ELSE IF size_raises THEN actions
            ELSE SelectTop(actions, MAX_ACTIONS)
  /\ pc' = "confirm"
  /\ UNCHANGED <<entry, text, actions, gate, polled, observed, cancelDown, confirmDown,
                 idx, ops, result, outcomes, config, runner, analyzer, client>>

\* ------------------------------------------------------------------ wait_for_confirmation
\* the wait entered although no keyboard module is there to poll
ConfirmsUnaskedOnlyOnAuto == AUTO_EXECUTE

\* lines 128-134: the two returns taken before any poll
ConfirmsUnasked == AUTO_EXECUTE \/ ~keyboard

WaitForConfirmation ==
  /\ pc = "confirm"
  /\ IF ConfirmsUnasked
     THEN gate' = "Confirmed" /\ pc' = "execute"
     ELSE gate' = "AwaitingConfirmation" /\ pc' = "poll_cancel"
  /\ UNCHANGED <<entry, text, actions, mode, selected, polled, observed, cancelDown, confirmDown,
                 idx, ops, result, outcomes, config, runner, analyzer, client>>

\* the user presses or releases a key while the gate waits
KeyChange ==
  /\ pc \in {"poll_cancel", "poll_confirm"}
  /\ \/ cancelDown' = ~cancelDown /\ confirmDown' = confirmDown
     \/ confirmDown' = ~confirmDown /\ cancelDown' = cancelDown
  /\ UNCHANGED <<entry, text, actions, mode, selected, gate, polled, observed,
                 idx, ops, pc, result, outcomes, config, runner, analyzer, client>>

\* the caller going on to execute_actions although the wait returned False
CancelledButExecuted(why) ==
  /\ gate' = "Cancelled"
  /\ observed' = why
  /\ pc' = "execute"
  /\ result' = result

\* wait_for_confirmation returns False (lines 142, 151) and run_from_response
\* returns False without executing (lines 288-290)
Cancelled(why) ==
  /\ gate' = "Cancelled"
  /\ observed' = why
  /\ pc' = "done"
  /\ result' = "False"

\* the round of the loop with its two tests in the other order: CONFIRM_KEY first
PollConfirmBeforeCancel ==
  /\ pc = "poll_cancel"
  /\ polled' = TRUE
  /\ \E raises \in BOOLEAN :
       IF raises THEN Cancelled("error")
       ELSE IF confirmDown
       THEN gate' = "Confirmed" /\ observed' = "confirm" /\ pc' = "execute" /\ result' = result
       ELSE IF cancelDown THEN Cancelled("cancel")
       ELSE pc' = "poll_confirm" /\ UNCHANGED <<gate, observed, result>>
  /\ UNCHANGED <<entry, text, actions, mode, selected, cancelDown, confirmDown,
                 idx, ops, outcomes, config, runner, analyzer, client>>

\* a wait that takes an error of the poll as a confirmation
PollCancelFailOpen ==
  /\ pc = "poll_cancel"
  /\ polled' = TRUE
  /\ \E raises \in BOOLEAN :
       IF raises
       THEN gate' = "Confirmed" /\ observed' = "error" /\ pc' = "execute" /\ result' = result
       ELSE IF cancelDown THEN Cancelled("cancel")
       ELSE pc' = "poll_confirm" /\ UNCHANGED <<gate, observed, result>>
  /\ UNCHANGED <<entry, text, actions, mode, selected, cancelDown, confirmDown,
                 idx, ops, outcomes, config, runner, analyzer, client>>

\* line 140: keyboard.is_pressed(CANCEL_KEY)
PollCancel ==
  /\ pc = "poll_cancel"
  /\ polled' = TRUE
  /\ \E raises \in BOOLEAN :
       IF raises THEN Cancelled("error")
       ELSE IF cancelDown THEN Cancelled("cancel")
       ELSE pc' = "poll_confirm" /\ UNCHANGED <<gate, observed, result>>
  /\ UNCHANGED <<entry, text, actions, mode, selected, cancelDown, confirmDown,
                 idx, ops, outcomes, config, runner, analyzer, client>>

\* a wait that gives up and goes on to execute when CONFIRM_KEY is not down
PollConfirmOrProceed ==
  /\ pc = "poll_confirm"
  /\ \E raises \in BOOLEAN :
       IF raises THEN Cancelled("error")
       ELSE IF confirmDown
       THEN gate' = "Confirmed" /\ observed' = "confirm" /\ pc' = "execute" /\ result' = result
       ELSE pc' = "execute" /\ UNCHANGED <<gate, observed, result>>
  /\ UNCHANGED <<entry, text, actions, mode, selected, polled, cancelDown, confirmDown,
                 idx, ops, outcomes, config, runner, analyzer, client>>

\* a wait that never sees CONFIRM_KEY
PollConfirmDeaf ==
  /\ pc = "poll_confirm"
  /\ \E raises \in BOOLEAN :
       IF raises THEN Cancelled("error")
       ELSE pc' = "poll_cancel" /\ UNCHANGED <<gate, observed, result>>
  /\ UNCHANGED <<entry, text, actions, mode, selected, polled, cancelDown, confirmDown,
                 idx, ops, outcomes, config, runner, analyzer, client>>

\* lines 143-148: keyboard.is_pressed(CONFIRM_KEY), then the sleep and the next round
PollConfirm ==
  /\ pc = "poll_confirm"
  /\ \E raises \in BOOLEAN :
       IF raises THEN Cancelled("error")
       ELSE IF confirmDown
       THEN gate' = "Confirmed" /\ observed' = "confirm" /\ pc' = "execute" /\ result' = result
       ELSE pc' = "poll_cancel" /\ UNCHANGED <<gate, observed, result>>
  /\ UNCHANGED <<entry, text, actions, mode, selected, polled, cancelDown, confirmDown,
                 idx, ops, outcomes, config, runner, analyzer, client>>

\* the user presses or releases the cancel key while the executor runs
KeyChangeWhileExecuting ==
  /\ pc = "execute"
  /\ cancelDown' = ~cancelDown
  /\ UNCHANGED <<entry, text, actions, mode, selected, gate, polled, observed, confirmDown,
                 idx, ops, pc, result, outcomes, config, runner, analyzer, client>>

\* ------------------------------------------------------------------ execute_actions
\* lines 168-171: cv_info, the "cv_analysis" entry of the latest report, if any
cv_info(report) == IF report.present THEN report.cv_analysis ELSE NoDims

\* lines 179-185: the click is skipped
OutOfBounds(report, x, y) ==
  /\ cv_info(report) # NoDims
  /\ ~(0 <= x /\ x < cv_info(report)[1] /\ 0 <= y /\ y < cv_info(report)[2])

Returned == IF entry = "run_from_response" THEN "True" ELSE "None"

\* lines 158-164: nothing to do, or no device layer
ExecuteNothing ==
  /\ pc = "execute"
  /\ selected = <<>> \/ ~pyautogui
  /\ pc' = "done"
  /\ result' = Returned
  /\ UNCHANGED <<entry, text, actions, mode, selected, gate, polled, observed, cancelDown,
                 confirmDown, idx, ops, outcomes, config, runner, analyzer, client>>

\* lines 189-191 without the call of time.sleep
ClickOpsWithoutSleep(act) == <<MoveTo(act.x, act.y), Pause, ClickOp, Pause>>

\* lines 189-191: moveTo, click, sleep
ClickOps(act) == <<MoveTo(act.x, act.y), Pause, ClickOp, Pause, Sleep>>

\* lines 196-197: write, sleep
TypeOps(act) == <<Write(act.text), Pause, Sleep>>

\* one round of the loop without the try of lines 174 and 200: what a call on
\* pyautogui raises leaves the loop and the directives after it are not looked at
ExecuteOneUncaught ==
  /\ pc = "execute"
  /\ selected # <<>> /\ pyautogui
  /\ idx <= Len(selected)
  /\ LET act == selected[idx] IN
       \/ /\ act.type = "click"
          /\ ops' = ops \o ClickOps(act)
          /\ outcomes' = Append(outcomes, "Executed")
          /\ idx' = idx + 1 /\ pc' = pc /\ result' = result
       \/ /\ act.type = "type"
          /\ ops' = ops \o TypeOps(act)
          /\ outcomes' = Append(outcomes, "Executed")
          /\ idx' = idx + 1 /\ pc' = pc /\ result' = result
       \/ /\ act.type \in {"click", "type"}
          /\ ops' = ops
          /\ outcomes' = Append(outcomes, "Failed")
          /\ idx' = idx + 1 /\ pc' = "done" /\ result' = "raised"
       \/ /\ act.type \notin {"click", "type"}
          /\ ops' = ops
          /\ outcomes' = Append(outcomes, "UnknownType")
          /\ idx' = idx + 1 /\ pc' = pc /\ result' = result
  /\ UNCHANGED <<entry, text, actions, mode, selected, gate, polled, observed, cancelDown,
                 confirmDown, config, runner, analyzer, client>>

\* lines 173-201: one round of the loop; a call on pyautogui may raise
ExecuteOne ==
  /\ pc = "execute"
  /\ selected # <<>> /\ pyautogui
  /\ idx <= Len(selected)
  /\ LET act == selected[idx] IN
       \/ /\ act.type = "click" /\ OutOfBounds(latest_report, act.x, act.y)
          /\ ops' = ops
          /\ outcomes' = Append(outcomes, "SkippedOutOfBounds")
       \/ /\ act.type = "click" /\ ~OutOfBounds(latest_report, act.x, act.y)
          /\ \/ ops' = ops \o ClickOps(act) /\ outcomes' = Append(outcomes, "Executed")
             \/ ops' = ops /\ outcomes' = Append(outcomes, "Failed")
             \/ ops' = ops \o <<MoveTo(act.x, act.y), Pause>>
                /\ outcomes' = Append(outcomes, "Failed")
       \/ /\ act.type = "type"
          /\ \/ ops' = ops \o TypeOps(act) /\ outcomes' = Append(outcomes, "Executed")
             \/ ops' = ops /\ outcomes' = Append(outcomes, "Failed")
       \/ /\ act.type \notin {"click", "type"}
          /\ ops' = ops
          /\ outcomes' = Append(outcomes, "UnknownType")
  /\ idx' = idx + 1
  /\ UNCHANGED <<entry, text, actions, mode, selected, gate, polled, observed, cancelDown,
                 confirmDown, pc, result, config, runner, analyzer, client>>

\* a loop that looks at CANCEL_KEY before each directive and stops when it is down
ExecuteDoneOrCancelled ==
  /\ pc = "execute"
  /\ selected # <<>> /\ pyautogui
  /\ idx > Len(selected) \/ cancelDown
  /\ pc' = "done"
  /\ result' = Returned
  /\ UNCHANGED <<entry, text, actions, mode, selected, gate, polled, observed, cancelDown,
                 confirmDown, idx, ops, outcomes, config, runner, analyzer, client>>

\* the loop is over; run_from_response returns True (lines 293-294)
ExecuteDone ==
  /\ pc = "execute"
  /\ selected # <<>> /\ pyautogui
  /\ idx > Len(selected)
  /\ pc' = "done"
  /\ result' = Returned
  /\ UNCHANGED <<entry, text, actions, mode, selected, gate, polled, observed, cancelDown,
                 confirmDown, idx, ops, outcomes, config, runner, analyzer, client>>

Next ==
  \/ Parse
  \/ Select
  \/ WaitForConfirmation
  \/ KeyChange
  \/ PollCancel
  \/ PollConfirm
  \/ ExecuteNothing
  \/ ExecuteOne
  \/ ExecuteDone

Spec == Init /\ [][Next]_vars

\* ------------------------------------------------------------------ the gate that waits
InitGate ==
  /\ AUTO_EXECUTE = FALSE /\ keyboard = TRUE
  /\ MAX_ACTIONS \in {1, 2}
  /\ pyautogui \in BOOLEAN
  /\ latest_report \in {NoReport, ScreenReport}
  /\ InitCycle
  /\ RunnerOff
  /\ AnalyzerOff
  /\ ClientOff
  /\ entry = "run_from_response" /\ text \in Samples /\ selected = <<>> /\ pc = "parse"

\* wait_for_confirmation's loop has no other wait than its sleep of 0.05 s: a poll
\* that is due is made
SpecGate == InitGate /\ [][Next]_vars /\ WF_vars(PollCancel) /\ WF_vars(PollConfirm)


\* ------------------------------------------------------------------ the parsers alone
InitParser ==
  /\ AUTO_EXECUTE = FALSE /\ MAX_ACTIONS = 1 /\ keyboard = TRUE /\ pyautogui = TRUE
  /\ latest_report = NoReport
  /\ InitCycle
  /\ AnalyzerOff
  /\ ClientOff
  /\ RunnerOff
  /\ entry = "none" /\ text \in ParserTexts /\ selected = <<>> /\ pc = "call"

\* a call of ActionExecutor.parse_actions (action_executor.py)
CallParseActions ==
  /\ pc = "call"
  /\ entry' = "parse_actions"
  /\ actions' = parse_actions(text)
  /\ pc' = "returned"
  /\ UNCHANGED <<text, mode, selected, gate, polled, observed, cancelDown, confirmDown,
                 idx, ops, result, outcomes, config, runner, analyzer, client>>

\* a call of ActionExecutor._parse_actions (Action Executor Module.py)
CallModuleParseActions ==
  /\ pc = "call"
  /\ entry' = "_parse_actions"
  /\ actions' = ModuleParseActions(text)
  /\ pc' = "returned"
  /\ UNCHANGED <<text, mode, selected, gate, polled, observed, cancelDown, confirmDown,
                 idx, ops, result, outcomes, config, runner, analyzer, client>>

NextParser == CallParseActions \/ CallModuleParseActions

SpecParser == InitParser /\ [][NextParser]_vars

\* ------------------------------------------------------------------ the recognizer alone
InitOcr ==
  /\ AUTO_EXECUTE = FALSE /\ MAX_ACTIONS = 1 /\ keyboard = TRUE /\ pyautogui = TRUE
  /\ latest_report = NoReport
  /\ InitCycle
  /\ AnalyzerOff
  /\ ClientOff
  /\ entry = "none" /\ text = <<>> /\ selected = <<>> /\ pc = "call"
  /\ stage = "off" /\ bound = {} /\ failed = "none"
  /\ ocr_data \in OcrResults(MaxTokens)
  /\ threshold \in Thresholds
  /\ text_elements = <<>>
  /\ analysis_report = NoReport /\ chatgpt_response = <<>>
  /\ db = <<>> /\ cycles = 0 /\ reported = {} /\ FAILSAFE = TRUE /\ inserts = 0

\* a call of ScreenAnalyzer._extract_text_with_ocr on an image for which
\* pytesseract.image_to_data returned ocr_data
CallExtractText ==
  /\ pc = "call"
  /\ entry' = "extract_text_with_ocr"
  /\ text_elements' = extract_text_with_ocr(ocr_data, threshold)
  /\ pc' = "returned"
  /\ UNCHANGED <<text, actions, mode, selected, gate, polled, observed, cancelDown, confirmDown,
                 idx, ops, result, outcomes, config>>
  /\ UNCHANGED <<stage, bound, failed, ocr_data, threshold, analysis_report,
                 chatgpt_response, db, cycles, reported, FAILSAFE>>
  /\ UNCHANGED <<analyzer, client, inserts>>

NextOcr == CallExtractText

SpecOcr == InitOcr /\ [][NextOcr]_vars


\* ------------------------------------------------------------------ the client alone
InitClient ==
  /\ AUTO_EXECUTE = FALSE /\ MAX_ACTIONS = 1 /\ keyboard = TRUE /\ pyautogui = TRUE
  /\ latest_report = NoReport
  /\ InitCycle
  /\ RunnerOff
  /\ AnalyzerOff
  /\ entry = "_make_api_request" /\ text = <<>> /\ selected = <<>> /\ pc = "request"
  /\ max_retries \in 0..MaxRetries
  /\ attempt = 0
  /\ posts = <<>>

\* lines 80-105: one round of the while loop of _make_api_request
Attempt ==
  /\ entry = "_make_api_request" /\ pc = "request"
  /\ attempt' = attempt + 1
  /\ \E o \in PostOutcomes :
       /\ posts' = Append(posts, o)
       /\ IF o.kind = "json"
          THEN pc' = "returned" /\ result' = "json" /\ ops' = ops
          ELSE IF Retries(o, attempt', max_retries)
          THEN pc' = "request" /\ result' = result /\ ops' = Append(ops, Backoff(attempt'))
          ELSE pc' = "raised" /\ result' = o.kind /\ ops' = ops
  /\ UNCHANGED <<entry, text, actions, mode, selected, gate, polled, observed, cancelDown,
                 confirmDown, idx, outcomes, config, runner, analyzer, max_retries>>

NextClient == Attempt

\* the loop is the only thing the caller's thread runs, session.post has a timeout
\* and every sleep is finite: a round that can be taken is taken
SpecClient == InitClient /\ [][NextClient]_vars /\ WF_vars(Attempt)


\* ------------------------------------------------------------------ the analyzer alone
InitScreen ==
  /\ AUTO_EXECUTE = FALSE /\ MAX_ACTIONS = 1 /\ keyboard = TRUE /\ pyautogui = TRUE
  /\ latest_report = NoReport
  /\ InitCycle
  /\ ClientOff
  /\ entry = "none" /\ text = <<>> /\ selected = <<>> /\ pc = "call"
  /\ stage = "off" /\ bound = {} /\ failed = "none"
  /\ threshold = 30
  /\ text_elements = <<>>
  /\ analysis_report = NoReport /\ chatgpt_response = <<>>
  /\ db = <<>> /\ cycles = 0 /\ reported = {} /\ FAILSAFE = TRUE /\ inserts = 0
  /\ \E d \in Displays :
       /\ screen = d.screen
       /\ image = d.image
       /\ contours \in ContourLists(d.image, MaxContours)
       /\ ocr_data \in WordResults(d.image)
  /\ ui_elements = [buttons |-> <<>>, windows |-> <<>>, icons |-> <<>>]
  /\ interaction_points = <<>>

\* a call of ScreenAnalyzer.analyze_screen (lines 69-95) on an image for which
\* pytesseract returned ocr_data and cv2 the contours; the report's
\* "screen_dimensions" is screen, its "elements" are text_elements and ui_elements
CallAnalyzeScreen ==
  /\ pc = "call"
  /\ entry' = "analyze_screen"
  /\ text_elements' = extract_text_with_ocr(ocr_data, threshold)
  /\ ui_elements' = detect_ui_elements(contours)
  /\ interaction_points' =
       find_interaction_points([text |-> text_elements', buttons |-> ui_elements'.buttons])
  /\ pc' = "returned"
  /\ UNCHANGED <<text, actions, mode, selected, gate, polled, observed, cancelDown, confirmDown,
                 idx, ops, result, outcomes, config, client>>
  /\ UNCHANGED <<stage, bound, failed, ocr_data, threshold, analysis_report,
                 chatgpt_response, db, cycles, reported, FAILSAFE, inserts, screen, image, contours>>

NextScreen == CallAnalyzeScreen

SpecScreen == InitScreen /\ [][NextScreen]_vars


\* ------------------------------------------------------------------ run_analysis_cycle
\* the strings _extract_typing_text_from_report's collect() meets in the "elements"
\* of analyze_screen's dict: "type" and "text" of each text element
RECURSIVE ElementStrings(_)
ElementStrings(elems) ==
  IF elems = <<>> THEN <<>>
  ELSE <<[text |-> <<"text">>, len |-> 4],
         [text |-> Head(elems).text, len |-> Len(Head(elems).text)]>>
       \o ElementStrings(Tail(elems))

\* the same for "interaction_points": "type" and "description" of each point
RECURSIVE PointStrings(_)
PointStrings(elems) ==
  IF elems = <<>> THEN <<>>
  ELSE <<[text |-> <<"text_click">>, len |-> 10],
         [text |-> <<"Click text: '">> \o Head(elems).text \o <<"'">>,
          len |-> 14 + Len(Head(elems).text)]>>
       \o PointStrings(Tail(elems))

\* analyze_screen, lines 83-95: the report compiled from the text elements (no
\* button and no window found); the summary is a string of 123 characters or more
CompileReport(elems) ==
  [present |-> TRUE, cv_analysis |-> NoDims, screen_dimensions |-> ScreenSize,
   strings |-> ElementStrings(elems) \o PointStrings(elems)
                 \o <<[text |-> <<"Screen resolution: ...">>, len |-> 123]>>]

\* OCR results of the cycles
CycleOcr ==
  { <<>>,
    <<OcrToken(<<"3", "0">>, <<"O", "K">>, <<10, 20, 30, 12>>),
      OcrToken(<<"9", "6">>, <<" ", "S", "a", "v", "e", "\n">>, <<10, 20, 30, 12>>)>> }

\* the message contents the language model sends; get_actions_from_report strips them
CycleContents ==
  { SampleSmoke,
    <<"CLICK", " ", "[", "1", ",", "2", "]">>,
    <<"Nothing", " ", "to", " ", "do", ".", "\n">>,
    <<"\n">> }

\* the except clause of line 84 left out: the exception leaves run_analysis_cycle
Propagated(step) ==
  /\ failed' = step
  /\ stage' = "raised"

\* lines 84-85: the exception of a step is logged; the cycle goes on at line 87
Caught(step) ==
  /\ failed' = step
  /\ stage' = "insert"

\* run_interactive_mode, lines 255-256 (loop_wrapper.py, lines 57-65; main, line 307):
\* run_analysis_cycle is called; its locals and those of the calls it makes are new
Trigger ==
  /\ stage = "idle"
  /\ cycles < MaxCycles
  /\ cycles' = cycles + 1
  /\ stage' = "capture"
  /\ bound' = {"timestamp"}
  /\ failed' = "none"
  /\ ocr_data' = <<>> /\ text_elements' = <<>> /\ analysis_report' = NoReport
  /\ chatgpt_response' = <<>>
  /\ entry' = "none" /\ text' = <<>> /\ actions' = <<>> /\ mode' = "none" /\ selected' = <<>>
  /\ gate' = "Idle" /\ polled' = FALSE /\ observed' = "none"
  /\ idx' = 1 /\ ops' = <<>> /\ pc' = "none" /\ result' = "none" /\ outcomes' = <<>>
  /\ UNCHANGED <<cancelDown, confirmDown, config, threshold, db, reported, FAILSAFE>>
  /\ UNCHANGED <<analyzer, client, inserts>>

\* line 56: capture_screenshot (Screen Analyzer Module.py, lines 25-67) switches the
\* fail-safe off, saves the screenshot and switches the fail-safe on again; without
\* pyautogui the analyzer has no capture_screenshot
Capture ==
  /\ stage = "capture"
  /\ \/ /\ pyautogui
        /\ bound' = bound \cup {"screenshot_path"}
        /\ FAILSAFE' = TRUE
        /\ stage' = "analyze"
        /\ failed' = failed
     \/ /\ Caught("capture")
        /\ bound' = bound
        /\ IF pyautogui THEN FAILSAFE' \in {FAILSAFE, FALSE} ELSE FAILSAFE' = FAILSAFE
  /\ UNCHANGED <<executor, config, ocr_data, threshold, text_elements, analysis_report,
                 chatgpt_response, db, cycles, reported>>
  /\ UNCHANGED <<analyzer, client, inserts>>

\* line 59: analyze_screen (Screen Analyzer Module.py, lines 69-99): the image is
\* loaded, the text is recognized, the report is compiled; what cv2.imread, pytesseract
\* or the element detection raises is logged and raised again
Analyze ==
  /\ stage = "analyze"
  /\ \/ \E d \in CycleOcr :
          /\ ocr_data' = d
          /\ text_elements' = extract_text_with_ocr(d, threshold)
          /\ analysis_report' = CompileReport(text_elements')
          /\ bound' = bound \cup {"analysis_report"}
          /\ stage' = "statistics"
          /\ failed' = failed
     \/ /\ \E step \in {"image", "ocr", "detect"} : Caught(step)
        /\ UNCHANGED <<ocr_data, text_elements, analysis_report, bound>>
  /\ UNCHANGED <<executor, config, threshold, chatgpt_response, db, cycles, reported, FAILSAFE>>
  /\ UNCHANGED <<analyzer, client, inserts>>

\* lines 62-63: _compute_statistics, _print_statistics
Statistics ==
  /\ stage = "statistics"
  /\ bound' = bound \cup {"statistics_summary"}
  /\ stage' = "save"
  /\ UNCHANGED <<executor, config, failed, ocr_data, threshold, text_elements, analysis_report,
                 chatgpt_response, db, cycles, reported, FAILSAFE>>
  /\ UNCHANGED <<analyzer, client, inserts>>

\* line 66: _save_analysis_report writes the report into the reports directory, where
\* it is the newest file; a write that raises may leave a file that cannot be loaded
SaveReport ==
  /\ stage = "save"
  /\ \/ /\ latest_report' = analysis_report
        /\ bound' = bound \cup {"report_path"}
        /\ stage' = "exchange"
        /\ failed' = failed
     \/ /\ Caught("save")
        /\ latest_report' \in {latest_report, NoReport}
        /\ bound' = bound
  /\ UNCHANGED <<executor, AUTO_EXECUTE, MAX_ACTIONS, keyboard, pyautogui, ocr_data, threshold,
                 text_elements, analysis_report, chatgpt_response, db, cycles, reported, FAILSAFE>>
  /\ UNCHANGED <<analyzer, client, inserts>>

\* a test that takes every response, the empty one too
IsResponseOrEmpty(r) == TRUE

\* line 73: if chatgpt_response
IsResponse(r) == r # <<>>

\* lines 71-82: get_actions_from_report (chatgpt_client.py, lines 107-151) returns the
\* stripped content or raises; with a response execute_from_response is called
Exchange ==
  /\ stage = "exchange"
  /\ \/ \E content \in CycleContents :
          LET r == strip(content) IN
            /\ chatgpt_response' = r
            /\ bound' = bound \cup {"chatgpt_response"}
            /\ failed' = failed
            /\ IF IsResponse(r)
               THEN /\ stage' = "execute"
                    /\ entry' = "run_from_response" /\ text' = r /\ pc' = "parse"
               ELSE /\ stage' = "insert"
                    /\ UNCHANGED <<entry, text, pc>>
     \/ /\ Caught("exchange")
        /\ UNCHANGED <<chatgpt_response, bound, entry, text, pc>>
  /\ UNCHANGED <<actions, mode, selected, gate, polled, observed, cancelDown, confirmDown,
                 idx, ops, result, outcomes, config, ocr_data, threshold, text_elements,
                 analysis_report, db, cycles, reported, FAILSAFE>>
  /\ UNCHANGED <<analyzer, client, inserts>>

\* how the cycle ended
Outcome ==
  IF entry = "none" THEN "aborted"
  ELSE IF actions = <<>> THEN "no directives found"
  ELSE IF gate = "Cancelled" THEN "cancelled by user"
  ELSE IF Len(outcomes) = Len(selected) /\ \A k \in 1..Len(outcomes) : outcomes[k] = "Executed"
  THEN "fully executed"
  ELSE "partially executed"

\* lines 89-95: the arguments of insert_cycle, a local that is not bound giving None;
\* a path or a time stamp is written as the number of the cycle that made it
Row ==
  [timestamp |-> cycles,
   screenshot_path |-> IF "screenshot_path" \in bound THEN cycles ELSE 0,
   report_path |-> IF "report_path" \in bound THEN cycles ELSE 0,
   chatgpt_response |-> IF "chatgpt_response" \in bound THEN chatgpt_response ELSE <<"None">>,
   statistics |-> IF "statistics_summary" \in bound THEN cycles ELSE 0]

\* a cycle that is saved only if no step of it raised
InsertCycleUnlessFailed ==
  /\ stage = "insert" \/ (stage = "execute" /\ pc = "done")
  /\ IF failed = "none"
     THEN /\ \E raises \in BOOLEAN :
               /\ db' = IF raises THEN db ELSE Append(db, Row)
               /\ failed' = IF raises THEN "insert" ELSE failed
          /\ inserts' = inserts + 1
     ELSE UNCHANGED <<db, failed, inserts>>
  /\ stage' = "idle"
  /\ reported' = reported \cup {<<result, Outcome>>}
  /\ UNCHANGED <<executor, config, bound, ocr_data, threshold, text_elements, analysis_report,
                 chatgpt_response, cycles, FAILSAFE>>
  /\ UNCHANGED <<analyzer, client>>

\* lines 87-98: the cycle is saved, whatever happened before; run_analysis_cycle
\* returns None and the loop polls again.  What execute_from_response returned
\* (line 80) is dropped.
InsertCycle ==
  /\ stage = "insert" \/ (stage = "execute" /\ pc = "done")
  /\ \E raises \in BOOLEAN :
       /\ db' = IF raises THEN db ELSE Append(db, Row)
       /\ failed' = IF raises /\ failed = "none" THEN "insert" ELSE failed
  /\ inserts' = inserts + 1
  /\ stage' = "idle"
  /\ reported' = reported \cup {<<result, Outcome>>}
  /\ UNCHANGED <<executor, config, bound, ocr_data, threshold, text_elements, analysis_report,
                 chatgpt_response, cycles, FAILSAFE>>
  /\ UNCHANGED <<analyzer, client>>

InitRunner ==
  /\ AUTO_EXECUTE \in BOOLEAN
  /\ MAX_ACTIONS \in {1, 2}
  /\ keyboard \in BOOLEAN
  /\ pyautogui \in BOOLEAN
  /\ latest_report \in {NoReport, VisionReport}
  /\ InitCycle
  /\ AnalyzerOff
  /\ ClientOff
  /\ entry = "none" /\ text = <<>> /\ selected = <<>> /\ pc = "none"
  /\ stage = "idle" /\ bound = {} /\ failed = "none"
  /\ ocr_data = <<>> /\ threshold = 30 /\ text_elements = <<>>
  /\ analysis_report = NoReport /\ chatgpt_response = <<>>
  /\ db = <<>> /\ cycles = 0 /\ reported = {} /\ FAILSAFE = TRUE /\ inserts = 0

NextRunner ==
  \/ Trigger
  \/ Capture
  \/ Analyze
  \/ Statistics
  \/ SaveReport
  \/ Exchange
  \/ Parse
  \/ Select
  \/ WaitForConfirmation
  \/ KeyChange
  \/ PollCancel
  \/ PollConfirm
  \/ KeyChangeWhileExecuting
  \/ ExecuteOne
  \/ ExecuteDone
  \/ InsertCycle

SpecRunner == InitRunner /\ [][NextRunner]_vars


\* ------------------------------------------------------------------ claims
InCycle == entry = "run_from_response"

\* C1: with auto-execute disabled and a signal source available, once the cancel
\* signal is observed before any confirm signal the gate is Cancelled, the cycle is
\* over with the result False, and no device operation has been issued in it.
C1_CancelIssuesNoDeviceOp ==
  (InCycle /\ ~AUTO_EXECUTE /\ keyboard /\ observed = "cancel")
    => (gate = "Cancelled" /\ pc = "done" /\ result = "False" /\ DeviceOps = <<>>)

C1_Witness ==
  /\ InCycle /\ ~AUTO_EXECUTE /\ keyboard /\ pyautogui
  /\ observed = "cancel" /\ gate = "Cancelled" /\ pc = "done"
  /\ selected # <<>>

\* the dimensions a report states, under either of its keys
KnownDims(report) ==
  IF ~report.present THEN NoDims
  ELSE IF report.cv_analysis # NoDims THEN report.cv_analysis
  ELSE report.screen_dimensions

Outside(dims, x, y) == ~(0 <= x /\ x < dims[1] /\ 0 <= y /\ y < dims[2])

\* C2: every Click{x,y} the executor has dealt with was skipped, with no pointer move
\* and no click, if a report with known screen dimensions is available and (x,y) is
\* outside them, and was dispatched to the device (move, then click) in every other case.
C2_ClickBoundsPolicy ==
  \A k \in 1..Len(outcomes) :
    selected[k].type = "click" =>
      IF KnownDims(latest_report) # NoDims
           /\ Outside(KnownDims(latest_report), selected[k].x, selected[k].y)
      THEN outcomes[k] = "SkippedOutOfBounds"
      ELSE outcomes[k] \in {"Executed", "Failed"}

\* C3: every device operation of a cycle realises a directive of the parsed list: a
\* pointer move or click goes to the coordinates of a parsed Click, and a typed text
\* is the text of a parsed Type.
C3_DeviceOpsRealiseParsedDirectives ==
  InCycle =>
    \A k \in 1..Len(ops) :
      /\ ops[k].op = "moveTo" =>
           \E j \in 1..Len(actions) :
             actions[j].type = "click" /\ actions[j].x = ops[k].x /\ actions[j].y = ops[k].y
      /\ ops[k].op = "click" => \E j \in 1..Len(actions) : actions[j].type = "click"
      /\ ops[k].op = "write" =>
           \E j \in 1..Len(actions) : actions[j].type = "type" /\ actions[j].text = ops[k].text

\* the parsed directives that pass the bounds check of the latest report
InBoundsActions ==
  SelectSeq(actions, LAMBDA a : a.type # "click" \/ ~OutOfBounds(latest_report, a.x, a.y))

\* the directive an operation realises
DirectiveOf(o) == IF o.op = "moveTo" THEN Click(o.x, o.y) ELSE Type(o.text)

Dispatched ==
  LET heads == SelectSeq(ops, LAMBDA o : o.op \in {"moveTo", "write"})
  IN [k \in 1..Len(heads) |-> DirectiveOf(heads[k])]

NoFailure == \A k \in 1..Len(outcomes) : outcomes[k] # "Failed"

\* C4: in a finished confirmed cycle with the device layer working, the directives
\* dispatched are exactly the parsed in-bounds directives, in parse order; for the
\* three-line sample these are the clicks at (89,17), (198,17), (271,17).
C4_AllParsedDirectivesExecutedInOrder ==
  (InCycle /\ pc = "done" /\ gate = "Confirmed" /\ pyautogui /\ NoFailure)
    => /\ Dispatched = InBoundsActions
       /\ (text = SampleThree /\ AUTO_EXECUTE)
            => Dispatched = <<Click(89, 17), Click(198, 17), Click(271, 17)>>


ParserReturned == entry = "parse_actions" /\ pc = "returned"

\* C5: the directives parse_actions returns are in the order in which their matches
\* start in the text: a directive whose match starts earlier comes earlier.
C5_DirectivesInTextOrder ==
  ParserReturned =>
    LET ms == parse_matches(text)
    IN /\ actions = ClicksOf(ms)
       /\ \A i, j \in 1..Len(ms) : ms[i].start < ms[j].start => i < j

\* C6: each of "CLICK (89, 17)", "CLICK button at coordinates [89, 17]" and
\* "CLICK at 89,17" parses to exactly one directive Click{89,17}, and no directive
\* added by the bare-number pass repeats the coordinates of a bracket match.
C6_ThreeFormsOneClick ==
  ParserReturned =>
    /\ text \in {SampleParen, SampleBracket, SampleBare} => actions = <<Click(89, 17)>>
    /\ LET nb == Len(finditer("click_pattern", normalized(text), 1))
       IN \A k \in (nb + 1)..Len(actions), j \in 1..nb :
            ~(actions[k].x = actions[j].x /\ actions[k].y = actions[j].y)

C6_Witness ==
  ParserReturned /\ text = SampleBracket /\ actions = <<Click(89, 17)>>

\* the texts s of the occurrences of KEYWORD "s" in a text, s non-empty and free of
\* double quotes
Literals(Kw, t) ==
  { SubSeq(t, q1 + 1, q2 - 1) : <<q1, q2>> \in
      { q \in (1..Len(t)) \X (1..Len(t)) :
          /\ q[2] > q[1] + 1
          /\ t[q[1]] = Quote /\ t[q[2]] = Quote
          /\ \A k \in (q[1] + 1)..(q[2] - 1) : t[k] # Quote
          /\ \E i \in 1..(q[1] - 1) :
               t[i] \in Kw /\ \A k \in (i + 1)..(q[1] - 1) : IsSpace(t[k]) } }

\* C7: for every TYPE "s" in the text the parser returns a directive Type{text: s}
\* with s unchanged.
C7_TypeLiteralPreserved ==
  ParserReturned =>
    \A lit \in Literals(TypeKw, text) : \E k \in 1..Len(actions) : actions[k] = Type(lit)

\* C8: in a finished confirmed cycle with the device layer working, a key press of
\* the lower-cased K has been issued for a PRESS "K" of the response if and only if
\* that key name is in the table of supported keys.
C8_PressIssuedIffKnownKey ==
  (InCycle /\ pc = "done" /\ gate = "Confirmed" /\ pyautogui /\ NoFailure) =>
    \A lit \in Literals(PressKw, text) :
      (\E k \in 1..Len(ops) : ops[k].op = "press" /\ ops[k].text = lower(lit))
        <=> lower(lit) \in KEYBOARD_KEYS

C10_GateResolvedBySignalOnly ==
  (InCycle /\ gate # "Idle") =>
    IF AUTO_EXECUTE \/ ~keyboard
    THEN gate = "Confirmed" /\ ~polled /\ observed = "none"
    ELSE \/ gate = "AwaitingConfirmation" /\ observed = "none"
         \/ gate = "Confirmed" /\ polled /\ observed = "confirm"
         \/ gate = "Cancelled" /\ polled /\ observed = "cancel"

\* C10, amended: the gate is Confirmed without a poll exactly when auto-execute is on
\* or no signal source is there; otherwise it waits and is resolved by an observed
\* confirm signal (Confirmed), an observed cancel signal (Cancelled) or an error
\* raised by the poll (Cancelled).
C10_GateResolvedBySignalOrPollError ==
  (InCycle /\ gate # "Idle") =>
    IF AUTO_EXECUTE \/ ~keyboard
    THEN gate = "Confirmed" /\ ~polled /\ observed = "none"
    ELSE \/ gate = "AwaitingConfirmation" /\ observed = "none"
         \/ gate = "Confirmed" /\ polled /\ observed = "confirm"
         \/ gate = "Cancelled" /\ polled /\ observed \in {"cancel", "error"}

C10_Witness ==
  /\ InCycle /\ ~AUTO_EXECUTE /\ keyboard
  /\ gate = "Cancelled" /\ observed = "error" /\ ~cancelDown


\* C11: while the gate is AwaitingConfirmation, a round of the poll that starts with
\* the cancel signal and the confirm signal both active ends the wait with the gate
\* Cancelled, the result False and no device operation: never with the gate Confirmed.
C11_CancelTakesPrecedence ==
  [][(/\ gate = "AwaitingConfirmation" /\ pc = "poll_cancel"
      /\ cancelDown /\ confirmDown
      /\ pc' # pc)
       => (gate' = "Cancelled" /\ pc' = "done" /\ result' = "False" /\ ops' = <<>>)]_vars

C11_Witness ==
  /\ InCycle /\ ~AUTO_EXECUTE /\ keyboard /\ pyautogui
  /\ cancelDown /\ confirmDown
  /\ gate = "Cancelled" /\ observed = "cancel" /\ pc = "done"


\* C12: a directive whose device call raised is recorded as Failed and the loop goes
\* on: the executor is then at the directive after it, and when execute_actions has
\* returned every directive handed to it has been dealt with, whichever directive
\* failed.
C12_FailureDoesNotAbortLoop ==
  \A k \in 1..Len(outcomes) :
    outcomes[k] = "Failed" =>
      /\ idx = Len(outcomes) + 1
      /\ pc \in {"execute", "done"}
      /\ pc = "done" => (Len(outcomes) = Len(selected) /\ result = Returned)

C12_Witness ==
  /\ pc = "done" /\ Len(selected) >= 2 /\ Len(outcomes) = Len(selected)
  /\ outcomes[1] = "Failed" /\ outcomes[Len(selected)] = "Executed"
  /\ \E k \in 1..Len(ops) : ops[k].op = "click"


IsPrefix(s, t) == Len(s) <= Len(t) /\ SubSeq(t, 1, Len(s)) = s

\* C13: from the gate being Confirmed and the executor running, whatever the state
\* of the cancel key, every step leaves the gate Confirmed and keeps the operations
\* already issued (the log of operations only grows), and the executor returns only
\* when every directive handed to it has been dealt with.
C13_NoCancelOnceExecuting ==
  [][(gate = "Confirmed" /\ pc = "execute")
       => /\ gate' = "Confirmed"
          /\ IsPrefix(ops, ops') /\ IsPrefix(outcomes, outcomes')
          /\ selected' = selected
          /\ (pc' = "done" /\ pyautogui /\ selected # <<>>)
               => (Len(outcomes') = Len(selected) /\ result' = "True")]_vars

C13_Witness ==
  /\ InCycle /\ AUTO_EXECUTE /\ gate = "Confirmed"
  /\ cancelDown
  /\ pc = "done" /\ Len(selected) >= 2 /\ Len(outcomes) = Len(selected)
  /\ \A k \in 1..Len(outcomes) : outcomes[k] = "Executed"


\* C15: when run_from_response has returned, its result is True if and only if a
\* device operation was issued in the call.
C15_TrueIffExecuted ==
  (InCycle /\ pc = "done") => (result = "True" <=> DeviceOps # <<>>)

IsDelay(o) == o.op \in {"sleep", "pause"}
\* the positions in ops at which an executed directive starts: a write, or a pointer
\* move whose click followed
Heads ==
  {k \in 1..Len(ops) :
     \/ ops[k].op = "write"
     \/ /\ ops[k].op = "moveTo"
        /\ \E j \in (k + 1)..Len(ops) :
             ops[j].op = "click" /\ \A m \in (k + 1)..(j - 1) : ~IsDeviceOp(ops[m])}

\* heads of two executed directives with no other head between them
Consecutive(i, j) == i \in Heads /\ j \in Heads /\ i < j /\ \A k \in (i + 1)..(j - 1) : k \notin Heads

\* C18 as stated: between the starts of two consecutive executed directives exactly
\* one delay of the configured length elapses.
C18_ExactlyOneDelayBetweenDirectives ==
  \A i, j \in 1..Len(ops) :
    Consecutive(i, j) => Cardinality({k \in (i + 1)..(j - 1) : IsDelay(ops[k])}) = 1

\* C18, amended: between the starts of two consecutive executed directives the
\* executor calls time.sleep with the configured delay exactly once, right after the
\* earlier directive's device calls and once for each executed directive; the device
\* layer pauses for the same length after each of its own calls as well.
C18_OneSleepAfterEachDirective ==
  /\ \A i, j \in 1..Len(ops) :
       Consecutive(i, j) => Cardinality({k \in (i + 1)..(j - 1) : ops[k] = Sleep}) = 1
  /\ \A k \in 1..Len(ops) :
       /\ IsDeviceOp(ops[k]) => (k < Len(ops) /\ ops[k + 1] = Pause)
       /\ ops[k].op \in {"click", "write"} => (k + 2 <= Len(ops) /\ ops[k + 2] = Sleep)
  /\ Len(SelectSeq(ops, LAMBDA o : o = Sleep))
       = Len(SelectSeq(outcomes, LAMBDA r : r = "Executed"))

C18_Witness ==
  /\ pc = "done" /\ Len(outcomes) >= 2
  /\ \A k \in 1..Len(outcomes) : outcomes[k] = "Executed"
  /\ Cardinality(Heads) >= 2


OcrReturned == entry = "extract_text_with_ocr" /\ pc = "returned"

\* the boxes of ocr_data whose confidence is above the threshold and whose trimmed
\* text is not empty
Qualifying ==
  {i \in 1..Len(ocr_data) : int(ocr_data[i].conf) > threshold /\ strip(ocr_data[i].text) # <<>>}

ElementOf(i) == TextElement(strip(ocr_data[i].text), ocr_data[i].box, int(ocr_data[i].conf))

\* C19: the recognizer's output holds a fragment for an OCR token if and only if the
\* token's confidence is greater than the threshold and its trimmed text is not
\* empty: the output is made of the qualifying tokens, one fragment for each, in the
\* order of the tokens; a token with confidence equal to the threshold and a token
\* with empty trimmed text give no fragment.
C19_FragmentIffConfidentAndNonEmpty ==
  OcrReturned =>
    /\ Len(text_elements) = Cardinality(Qualifying)
    /\ \A i \in Qualifying :
         text_elements[Cardinality({j \in Qualifying : j <= i})] = ElementOf(i)
    /\ \A k \in 1..Len(text_elements) :
         /\ text_elements[k].confidence > threshold
         /\ text_elements[k].text # <<>>
         /\ strip(text_elements[k].text) = text_elements[k].text

C19_Witness ==
  /\ OcrReturned /\ threshold = 30 /\ Len(ocr_data) = 2
  /\ ocr_data[1].conf = <<"3", "0">> /\ ocr_data[1].text = <<"O", "K">>
  /\ ocr_data[2].conf = <<"3", "1">> /\ ocr_data[2].text = <<" ", "S", "a", "v", "e", "\n">>
  /\ text_elements = <<TextElement(<<"S", "a", "v", "e">>, ocr_data[2].box, 31)>>


\* C14: what a finished cycle reports tells how it ended: two cycles that ended in
\* different ones of {fully executed, partially executed, no directives found,
\* cancelled by user, aborted} never report the same value.
C14_OutcomeReportedDistinctly ==
  \A p, q \in reported : p[1] = q[1] => p[2] = q[2]

\* the exchange gave no response: it raised, or it returned the empty text
NoResponse ==
  \/ failed = "exchange"
  \/ "chatgpt_response" \in bound /\ chatgpt_response = <<>>

\* C16: when the language-model exchange of a cycle raised or returned an empty
\* response, the cycle goes straight on to its end: run_from_response is not
\* called, so nothing is parsed, the gate stays Idle, the keys are not polled and no
\* device operation is issued.
C16_NoResponseSkipsParserGateExecutor ==
  (cycles >= 1 /\ NoResponse) =>
    /\ stage \in {"insert", "idle"}
    /\ entry = "none" /\ pc = "none"
    /\ actions = <<>> /\ selected = <<>>
    /\ gate = "Idle" /\ ~polled
    /\ ops = <<>> /\ outcomes = <<>>

C16_Witness ==
  /\ stage = "idle" /\ cycles >= 1
  /\ "chatgpt_response" \in bound /\ chatgpt_response = <<>>
  /\ "report_path" \in bound
  /\ db # <<>> /\ db[Len(db)].timestamp = cycles

CycleStages ==
  {"idle", "capture", "analyze", "statistics", "save", "exchange", "execute", "insert"}

\* C17: no step of a cycle lets an exception leave run_analysis_cycle: a step that
\* raises ends the cycle at the insert into the cycles table, after which the loop
\* polls again and can start the next cycle.  The next cycle starts with new locals
\* and a new executor call, and when its executor runs, the newest report is the
\* one this cycle compiled and saved, the response is this cycle's and the
\* fail-safe is on.  A row of the cycles table holds only what its own cycle made.
C17_FailureEndsOnlyTheCycle ==
  /\ stage \in CycleStages
  /\ failed # "none" => stage \in {"insert", "idle"}
  /\ (stage = "idle" /\ cycles < MaxCycles) => ENABLED Trigger
  /\ stage = "capture" =>
       /\ bound = {"timestamp"} /\ failed = "none"
       /\ entry = "none" /\ actions = <<>> /\ selected = <<>> /\ gate = "Idle"
       /\ ops = <<>> /\ outcomes = <<>> /\ result = "none" /\ idx = 1
  /\ stage = "execute" =>
       /\ failed = "none"
       /\ latest_report = analysis_report
       /\ analysis_report = CompileReport(extract_text_with_ocr(ocr_data, threshold))
       /\ text = chatgpt_response
       /\ FAILSAFE
  /\ \A k \in 1..Len(db) :
       /\ db[k].timestamp \in 1..cycles
       /\ db[k].screenshot_path \in {0, db[k].timestamp}
       /\ db[k].report_path \in {0, db[k].timestamp}
       /\ db[k].statistics \in {0, db[k].timestamp}
       /\ \A j \in 1..(k - 1) : db[j].timestamp < db[k].timestamp
  /\ (stage = "idle" /\ failed = "capture" /\ db # <<>> /\ db[Len(db)].timestamp = cycles)
       => /\ db[Len(db)].screenshot_path = 0 /\ db[Len(db)].report_path = 0
          /\ db[Len(db)].chatgpt_response = <<"None">>

C17_Witness ==
  /\ cycles = 2 /\ stage = "execute" /\ pc = "execute" /\ idx = 2
  /\ Len(db) = 1 /\ db[1].timestamp = 1 /\ db[1].screenshot_path = 0
  /\ latest_report = analysis_report /\ FAILSAFE

\* C20: when the OCR backend raised during the recognition of a cycle, the
\* recognizer has returned no fragment and the cycle has compiled its report, with
\* zero text fragments; the cycle is not ended by the failure.
C20_OcrFailureGivesEmptyReport ==
  failed = "ocr" =>
    /\ text_elements = <<>>
    /\ "analysis_report" \in bound
    /\ analysis_report = CompileReport(<<>>)

\* C21: in every report analyze_screen has compiled, the centre of every interaction
\* point lies within the report's screen dimensions.
ScreenReturned == entry = "analyze_screen" /\ pc = "returned"

C21_CentersWithinScreen ==
  ScreenReturned =>
    \A k \in 1..Len(interaction_points) :
      LET c == interaction_points[k].coordinates
      IN 0 <= c[1] /\ c[1] < screen[1] /\ 0 <= c[2] /\ c[2] < screen[2]

\* C22: every bounding box the detector was given is listed as a button only if
\* 20 < w < 100 and 10 < h < 50, as a window only if w > 100 and h > 100, never as
\* both; a box that meets neither condition is in neither list, and the lists hold
\* nothing else.
Listed(kind, r, list) == \E k \in 1..Len(list) : list[k] = Element(kind, r)

C22_ButtonAndWindowThresholds ==
  ScreenReturned =>
    /\ \A i \in 1..Len(contours) :
         LET r == contours[i]
             w == r[3]
             h == r[4]
             button == Listed("button", r, ui_elements.buttons)
             window == Listed("window", r, ui_elements.windows)
         IN /\ button => (20 < w /\ w < 100 /\ 10 < h /\ h < 50)
            /\ window => (w > 100 /\ h > 100)
            /\ ~(button /\ window)
            /\ ~(20 < w /\ w < 100 /\ 10 < h /\ h < 50) /\ ~(w > 100 /\ h > 100)
                 => ~button /\ ~window
            /\ ~Listed("window", r, ui_elements.buttons)
            /\ ~Listed("button", r, ui_elements.windows)
    /\ \A k \in 1..Len(ui_elements.buttons) :
         \E i \in 1..Len(contours) : ui_elements.buttons[k] = Element("button", contours[i])
    /\ \A k \in 1..Len(ui_elements.windows) :
         \E i \in 1..Len(contours) : ui_elements.windows[k] = Element("window", contours[i])
    /\ ui_elements.icons = <<>>

C22_Witness ==
  /\ ScreenReturned
  /\ Len(contours) = 2
  /\ Len(ui_elements.buttons) = 1 /\ ui_elements.buttons[1].coordinates[3] = 99
  /\ ui_elements.windows = <<>>
  /\ \E i \in 1..2 : contours[i][3] = 100

\* C23: when a call of run_from_response that chose type mode and was confirmed has
\* returned, exactly one typing operation and no pointer move or click was issued,
\* the typed text being the first string of the latest report whose trimmed length
\* is more than 2 and at most 120, or "Automated input" without a report or such a
\* string, and the call returned True.
IsTypable(report, i) == 2 < report.strings[i].len /\ report.strings[i].len <= 120

TypingTextOf(report) ==
  IF report.present /\ \E i \in 1..Len(report.strings) : IsTypable(report, i)
  THEN LET first == CHOOSE i \in 1..Len(report.strings) :
                      IsTypable(report, i) /\ \A j \in 1..(i - 1) : ~IsTypable(report, j)
       IN report.strings[first].text
  ELSE <<"Automated input">>

TypeCycleDone == InCycle /\ mode = "type" /\ gate = "Confirmed" /\ pc = "done"

IsRetriedOutcome(o) ==
  \/ o.kind = "HTTPError" /\ o.status \in {429, 500, 502, 503, 504}
  \/ o.kind = "RequestException"

ClientEnded == pc \in {"returned", "raised"}

C24_AttemptsAreBounded ==
  /\ attempt = Len(posts)
  /\ attempt <= max_retries + 1
  /\ \A k \in 1..(Len(posts) - 1) : IsRetriedOutcome(posts[k])
  /\ Len(ops) = IF ClientEnded THEN Len(posts) - 1 ELSE Len(posts)
  /\ \A k \in 1..Len(posts) :
       /\ posts[k].kind = "json" => (k = Len(posts) /\ pc = "returned" /\ result = "json")
       /\ (posts[k].kind = "HTTPError" /\ ~IsRetriedOutcome(posts[k]))
            => (k = Len(posts) /\ pc = "raised" /\ result = "HTTPError")
  /\ pc = "returned" => (posts # <<>> /\ posts[Len(posts)].kind = "json")
  /\ pc = "request" => attempt <= max_retries

PipelineEnded == stage = "insert" \/ (stage = "execute" /\ pc = "done")

C25_InsertStep ==
  inserts' # inserts =>
    /\ PipelineEnded
    /\ inserts' = inserts + 1
    /\ stage' = "idle"
    /\ db' = Append(db, Row) \/ (db' = db /\ failed' \in {failed, "insert"})
    /\ db' # db => failed' = failed
    /\ UNCHANGED <<executor, config, bound, ocr_data, threshold, text_elements,
                   analysis_report, chatgpt_response, cycles, FAILSAFE, analyzer, client>>

C25_OneInsertAttemptPerCycle ==
  /\ [](inserts = IF stage = "idle" THEN cycles ELSE cycles - 1)
  /\ [](Len(db) <= inserts)
  /\ [](PipelineEnded => ENABLED InsertCycle)
  /\ [][C25_InsertStep]_vars

C25_Witness ==
  /\ stage = "idle" /\ cycles = 2 /\ inserts = 2
  /\ Len(db) = 1 /\ db[1].timestamp = 1
  /\ failed = "insert"
  /\ gate = "Cancelled"

\* C26: in a cycle a device operation has been issued only if the gate is Confirmed:
\* no step taken with the gate Idle, AwaitingConfirmation or Cancelled issues a
\* pointer move, a click or a keystroke, and a Cancelled or Confirmed gate stays so.
C26_GateStep ==
  InCycle =>
    /\ gate # "Confirmed" => ops' = ops
    /\ gate \in {"Confirmed", "Cancelled"} => gate' = gate
    /\ (gate # "Confirmed" /\ gate' = "Confirmed") => pc \in {"confirm", "poll_confirm"}

C26_DeviceOpsOnlyAfterConfirmed ==
  /\ []((InCycle /\ DeviceOps # <<>>) => gate = "Confirmed")
  /\ []((InCycle /\ gate # "Confirmed") => (ops = <<>> /\ outcomes = <<>>))
  /\ [][C26_GateStep]_vars

C26_Witness ==
  /\ InCycle /\ ~AUTO_EXECUTE /\ keyboard
  /\ gate = "Confirmed" /\ polled /\ observed = "confirm"
  /\ pc = "execute" /\ idx = 2 /\ Len(selected) = 2
  /\ DeviceOps # <<>>

\* C27: in click mode the executor is handed at most MAX_ACTIONS of the parsed click
\* directives, those nearest the screen centre in Manhattan distance, ties in parse
\* order, and so at most MAX_ACTIONS clicks are issued in the cycle.
Distance(a) == Abs(a.x - 960) + Abs(a.y - 540)

\* the directive at position i of the parsed list comes before the one at position j
Nearer(i, j) ==
  \/ Distance(actions[i]) < Distance(actions[j])
  \/ Distance(actions[i]) = Distance(actions[j]) /\ i < j

\* selected holds the n nearest parsed directives, nearest first
IsNearest(n) ==
  /\ Len(selected) = Min(n, Len(actions))
  /\ \E f \in [1..Len(selected) -> 1..Len(actions)] :
       /\ \A i \in 1..Len(selected) : selected[i] = actions[f[i]]
       /\ \A i, j \in 1..Len(selected) : i < j => Nearer(f[i], f[j])
       /\ \A i \in 1..Len(selected) :
            \A k \in 1..Len(actions) :
              (\A j \in 1..Len(selected) : f[j] # k) => Nearer(f[i], k)

ClickModeSelected == InCycle /\ mode = "click" /\ pc \notin {"parse", "select"}

Clicks == SelectSeq(ops, LAMBDA o : o.op = "click")

C27_AtMostMaxActionsNearest ==
  ClickModeSelected =>
    /\ IsNearest(MAX_ACTIONS)
    /\ Len(Clicks) <= MAX_ACTIONS

\* C27 as the code has it: the MAX_ACTIONS nearest directives are handed over unless
\* the selection raises, which hands over every parsed directive; the clicks issued
\* are at most as many as the directives handed over.
C27_NearestUnlessSelectionRaises ==
  ClickModeSelected =>
    /\ IsNearest(MAX_ACTIONS) \/ (pyautogui /\ selected = actions)
    /\ Len(Clicks) <= Len(selected)
    /\ IsNearest(MAX_ACTIONS) => Len(Clicks) <= MAX_ACTIONS

C27_Witness ==
  /\ ClickModeSelected /\ pc = "done" /\ gate = "Confirmed"
  /\ MAX_ACTIONS = 2 /\ Len(actions) = 3
  /\ selected = <<actions[1], actions[3]>>
  /\ Len(Clicks) = 2

\* C28: when a poll of the signal source has raised while the gate was waiting, the
\* gate is Cancelled, wait_for_confirmation and run_from_response have returned
\* False, and no device operation has been or will be issued in the cycle.
C28_PollErrorFailsClosed ==
  (InCycle /\ observed = "error") =>
    /\ ~AUTO_EXECUTE /\ keyboard /\ polled
    /\ gate = "Cancelled" /\ pc = "done" /\ result = "False"
    /\ ops = <<>> /\ outcomes = <<>>
    /\ ~ENABLED ExecuteOne

C28_Witness ==
  /\ InCycle /\ observed = "error"
  /\ confirmDown /\ ~cancelDown
  /\ gate = "Cancelled" /\ pc = "done" /\ selected # <<>> /\ pyautogui

\* C29: with auto-execute off and a signal source, the gate leaves
\* AwaitingConfirmation only on an observed confirm signal, an observed cancel signal
\* or an error of the poll; while none of these happens it goes on waiting and no
\* device operation is issued; and if from some time on the confirm signal stays
\* active, the cancel signal never being active, the gate reaches Confirmed.
Waiting == gate = "AwaitingConfirmation"

C29_LeavesOnlyBySignalOrError ==
  (Waiting /\ gate' # gate) =>
    \/ gate' = "Confirmed" /\ confirmDown /\ observed' = "confirm"
    \/ gate' = "Cancelled" /\ cancelDown /\ observed' = "cancel"
    \/ gate' = "Cancelled" /\ observed' = "error"

C29_WaitsWithoutSignal ==
  [](Waiting => (ops = <<>> /\ outcomes = <<>> /\ result = "none"
                   /\ pc \in {"poll_cancel", "poll_confirm"}))

C29_ConfirmHeldGivesConfirmed ==
  /\ [][C29_LeavesOnlyBySignalOrError]_vars
  /\ C29_WaitsWithoutSignal
  /\ (<>Waiting /\ <>[]confirmDown /\ []~cancelDown) => <>(gate = "Confirmed")

\* C29 as the code has it: the confirm signal held, with the cancel signal never
\* active, brings the gate to Confirmed unless a poll raises, which ends the wait as
\* Cancelled.
C29_ConfirmHeldGivesConfirmedUnlessPollRaises ==
  /\ [][C29_LeavesOnlyBySignalOrError]_vars
  /\ C29_WaitsWithoutSignal
  /\ (<>Waiting /\ <>[]confirmDown /\ []~cancelDown)
       => <>(gate = "Confirmed" \/ (gate = "Cancelled" /\ observed = "error"))
  /\ (<>Waiting /\ <>[]confirmDown /\ []~cancelDown /\ [](observed # "error"))
       => <>(gate = "Confirmed")

C29_Witness ==
  /\ InCycle /\ ~AUTO_EXECUTE /\ keyboard
  /\ gate = "Confirmed" /\ polled /\ observed = "confirm"
  /\ confirmDown /\ ~cancelDown
  /\ pc = "done"

\* C30: every directive parse_actions returns carries the two integers of a
\* coordinate pair written in the text after a CLICK keyword, each of them a whole
\* number of the text: never a part of a longer run of digits.
\* A pair written at position a of s: a whole run of digits, a comma, a whole run of
\* digits, with white space at most around the comma.
PairAt(s, a) ==
  LET b == SkipWhile(s, a, "\\d")
      cm == SkipWhile(s, b, "\\s")
      c == SkipWhile(s, cm + 1, "\\s")
      d == SkipWhile(s, c, "\\d")
  IN IF /\ IsDigit(At(s, a)) /\ ~IsDigit(At(s, a - 1))
        /\ At(s, cm) = "," /\ d > c
        /\ \E k \in 1..(a - 1) : s[k] \in ClickKw
     THEN <<ToInt(SubSeq(s, a, b - 1)), ToInt(SubSeq(s, c, d - 1))>>
     ELSE <<>>

C30_CoordinatesAreWholeNumbers ==
  ParserReturned =>
    \A k \in 1..Len(actions) :
      \E a \in 1..Len(text) : PairAt(text, a) = <<actions[k].x, actions[k].y>>

====
